---- MODULE Spec2Model ----
(***************************************************************************)
(* A model of the simulation core of runt: the layered entity container    *)
(* (World: world.go, and its type-counting revision) and the frame loop    *)
(* of the Engine (engine.go).                                              *)
(*                                                                         *)
(* A Go slice is modelled with its backing array: a slice is a record      *)
(* [ok, len, arr] where arr is the whole backing array (Len(arr) is the    *)
(* capacity), len the slice's length and ok tells whether the map holds    *)
(* the key at all.  Slots of arr beyond len keep whatever the code left    *)
(* there (append(list[:i], list[i+1:]...) shifts in place and leaves the   *)
(* old last element behind).                                               *)
(***************************************************************************)
EXTENDS Integers, Sequences, FiniteSets, TLC

\* ------------------------------------------------------------------ bounds

\* Entities are the references 1..NumEnt; Nil is the nil interface value.
NumEnt == 3
\* Layer keys are 0..MaxLayer.
MaxLayer == 1
\* addQueue and removeQueue together never hold more than MaxQueue entries.
MaxQueue == 2
\* The layer lists together never hold more than MaxLive entries.
MaxLive == 3
\* With the z-order calls, the queues together hold at most MaxQueueOrder entries.
MaxQueueOrder == 1
\* Inside a traversal with flushing calls, the queues hold at most MaxQueueNested entries.
MaxQueueNested == 1
\* With the LayerID changes, the queues together hold at most MaxQueueLayer entries.
MaxQueueLayer == 1
\* With the pool calls, the queues together hold at most MaxQueuePool entries.
MaxQueuePool == 1
\* The pool never holds more than MaxPool entries.
MaxPool == 2
\* Time is counted in units of 1/Second of a second.
Second == 120
\* The measured frame deltas are -1..MaxDt units: a clock that steps back, no
\* time at all, and up to more than the engine's ceiling on a delta.
MaxDt == 13
\* The lag is not followed below -MaxRegress units.
MaxRegress == 2
\* A float32 holds the multiples of 1/Float32Grid: coarser than the float64
\* lag, which holds every time unit.
Float32Grid == 2

\* The width of the float64 mantissa, in bits of the model's time unit: wide
\* enough to hold every value of a run exactly (ExactBits), or so narrow that sums,
\* differences and products are rounded (FloatBits).
ExactBits == 6
FloatBits == 3

\* The positions an entity moves through.
MaxX == 3

Nil == 0
Min(a, b) == IF a < b THEN a ELSE b
Ent == 1..NumEnt
LayerIds == 0..MaxLayer
TypeNames == {"Hero", "Coin"}

\* make([]Entity, 0, 8): the capacity of a freshly created layer list.
LayerCap == 8

VARIABLES
    w,        \* the World: layers, layerOrder, addQueue, removeQueue, pool, typeCounts
    LayerID,  \* LayerID[e]: the public field BaseEntity.LayerID of entity e
    trav,     \* the traversal (Update/Render/ForEach) in progress, its position and log
    last,     \* the last operation: its name, argument, result and the World before it
    eng,      \* the Engine, the locals of its Run loop and the globals it publishes
    body      \* body[e]: rawX and prevRawX of the BaseEntity of e, and what the frame did to it

vars == <<w, LayerID, trav, last, eng, body>>

\* ---------------------------------------------------------------- entities

\* BaseEntity.Layer: the entity's current LayerID.
Layer(e) == LayerID[e]

\* reflect.TypeOf(e).Elem().Name(): the entity's concrete type, fixed for life.
TypeName(e) == IF e % 2 = 1 THEN "Hero" ELSE "Coin"

\* ------------------------------------------------------------------ slices

\* The zero value a map read gives for a missing key: no key, nil slice.
NoList == [ok |-> FALSE, len |-> 0, arr |-> <<>>]

\* make([]Entity, 0, 8). Backing arrays are sequences: "<<>> \o f" is the
\* function f over 1..n as a sequence.
MakeList == [ok |-> TRUE, len |-> 0, arr |-> <<>> \o [j \in 1..LayerCap |-> Nil]]

\* The elements of a slice, s[0:len].
Elems(s) == SubSeq(s.arr, 1, s.len)

\* The index (1-based) of the first element of s equal to e, 0 when there is none:
\* "for i, ent := range list { if ent == e {...; break} }".
IndexOf(s, e) ==
    IF \E i \in 1..s.len : s.arr[i] = e
    THEN CHOOSE i \in 1..s.len :
            /\ s.arr[i] = e
            /\ \A j \in 1..(i - 1) : s.arr[j] # e
    ELSE 0

\* Removal by moving the last element into the hole: list[i] = list[len-1].
DeleteAt_SwapLast(s, i) ==
    [s EXCEPT !.len = s.len - 1, !.arr[i] = s.arr[s.len]]

\* append(list[:i], list[i+1:]...): shifts the tail left inside the same backing
\* array; the slot of the old last element keeps its value.
DeleteAt(s, i) ==
    [s EXCEPT !.len = s.len - 1,
              !.arr = <<>> \o [j \in 1..Len(s.arr) |->
                          IF j >= i /\ j < s.len THEN s.arr[j + 1] ELSE s.arr[j]]]

\* runtime.growslice for 16-byte elements: double a small capacity, or take the
\* needed length when doubling is not enough.
GrowCap(oldcap, needed) == IF needed > 2 * oldcap THEN needed ELSE 2 * oldcap

\* append(list, e): writes in place while the capacity allows, else moves the
\* elements to a new, larger backing array.
AppendTo(s, e) ==
    IF s.len < Len(s.arr)
    THEN [s EXCEPT !.len = s.len + 1, !.arr[s.len + 1] = e]
    ELSE [s EXCEPT !.len = s.len + 1,
                   !.arr = <<>> \o [j \in 1..GrowCap(Len(s.arr), s.len + 1) |->
                               IF j <= s.len THEN s.arr[j]
                               ELSE IF j = s.len + 1 THEN e ELSE Nil]]

\* sort.Ints
RECURSIVE SortInts(_)
SortInts(s) ==
    IF s = <<>> THEN <<>>
    ELSE LET m == CHOOSE x \in {s[i] : i \in 1..Len(s)} :
                     \A i \in 1..Len(s) : x <= s[i]
             k == CHOOSE i \in 1..Len(s) : s[i] = m
         IN <<m>> \o SortInts(SubSeq(s, 1, k - 1) \o SubSeq(s, k + 1, Len(s)))

\* ------------------------------------------------------------------- World

\* NewWorld
NewWorld ==
    [layers      |-> [l \in LayerIds |-> NoList],
     layerOrder  |-> <<>>,
     addQueue    |-> <<>>,
     removeQueue |-> <<>>,
     pool        |-> [k \in TypeNames |-> <<>>],
     typeCounts  |-> [k \in TypeNames |-> 0]]

\* The removal loop taking an entity it did not find for removed.
RemoveOne_CountsAbsent(ww, e) ==
    LET layer == Layer(e)
        list  == ww.layers[layer]
        i     == IndexOf(list, e)
    IN IF i = 0 THEN [ww EXCEPT !.typeCounts[TypeName(e)] = @ - 1]
       ELSE [ww EXCEPT !.typeCounts[TypeName(e)] = @ - 1,
                       !.layers[layer] = DeleteAt(list, i)]

\* One iteration of the removal loop of FlushQueues, for the queued entity e.
RemoveOne(ww, e) ==
    LET layer == Layer(e)
        list  == ww.layers[layer]
        i     == IndexOf(list, e)
    IN IF i = 0 THEN ww
       ELSE [ww EXCEPT !.typeCounts[TypeName(e)] = @ - 1,
                       !.layers[layer] = DeleteAt(list, i)]

\* The addition loop without the sort of layerOrder.
AddOne_Unsorted(ww, e) ==
    LET layer == Layer(e)
        w1 == IF ww.layers[layer].ok THEN ww
              ELSE [ww EXCEPT !.layers[layer] = MakeList,
                              !.layerOrder = Append(@, layer)]
    IN [w1 EXCEPT !.layers[layer] = AppendTo(@, e),
                  !.typeCounts[TypeName(e)] = @ + 1]

\* One iteration of the addition loop of FlushQueues, for the queued entity e.
AddOne(ww, e) ==
    LET layer == Layer(e)
        w1 == IF ww.layers[layer].ok THEN ww
              ELSE [ww EXCEPT !.layers[layer] = MakeList,
                              !.layerOrder = SortInts(Append(@, layer))]
    IN [w1 EXCEPT !.layers[layer] = AppendTo(@, e),
                  !.typeCounts[TypeName(e)] = @ + 1]

\* Add putting the entity into its layer list at once.
Add_Immediate(ww, e) == AddOne(ww, e)

\* World.Add
Add(ww, e) == [ww EXCEPT !.addQueue = Append(@, e)]

\* World.Remove
Remove(ww, e) == [ww EXCEPT !.removeQueue = Append(@, e)]

RECURSIVE ProcessRemovals(_, _)
ProcessRemovals(ww, q) ==
    IF q = <<>> THEN ww ELSE ProcessRemovals(RemoveOne(ww, Head(q)), Tail(q))

RECURSIVE ProcessAdditions(_, _)
ProcessAdditions(ww, q) ==
    IF q = <<>> THEN ww ELSE ProcessAdditions(AddOne(ww, Head(q)), Tail(q))

\* FlushQueues with the additions applied before the removals.
FlushQueues_AddsFirst(ww) ==
    LET w1 == ProcessAdditions(ww, ww.addQueue)
        w2 == [w1 EXCEPT !.addQueue = <<>>]
        w3 == ProcessRemovals(w2, w2.removeQueue)
    IN [w3 EXCEPT !.removeQueue = <<>>]

\* FlushQueues without the clearing of the add queue.
FlushQueues_KeepAdds(ww) ==
    LET w1 == ProcessRemovals(ww, ww.removeQueue)
        w2 == [w1 EXCEPT !.removeQueue = <<>>]
    IN ProcessAdditions(w2, w2.addQueue)

\* World.FlushQueues
FlushQueues(ww) ==
    LET w1 == ProcessRemovals(ww, ww.removeQueue)
        w2 == [w1 EXCEPT !.removeQueue = <<>>]
        w3 == ProcessAdditions(w2, w2.addQueue)
    IN [w3 EXCEPT !.addQueue = <<>>]

\* The concatenation of the layer lists in layerOrder: what Entities() builds
\* after its flush.
RECURSIVE Flatten(_, _)
Flatten(ww, order) ==
    IF order = <<>> THEN <<>>
    ELSE Elems(ww.layers[Head(order)]) \o Flatten(ww, Tail(order))

\* World.Entities: the value returned, for the World as flushed.
Entities(ww) == Flatten(ww, ww.layerOrder)

RECURSIVE SumLen(_, _)
SumLen(ww, order) ==
    IF order = <<>> THEN 0
    ELSE ww.layers[Head(order)].len + SumLen(ww, Tail(order))

\* World.Count: the value returned, for the World as flushed.
Count(ww) == SumLen(ww, ww.layerOrder)

\* World.LayerCount
LayerCount(ww, layer) == ww.layers[layer].len

\* World.TypeCount
TypeCount(ww, typeName) == ww.typeCounts[typeName]

\* append(s, xs...): in place while the capacity allows, else a new backing array.
AppendAll(s, xs) ==
    LET newLen == s.len + Len(xs)
        cap    == IF newLen <= Len(s.arr) THEN Len(s.arr)
                  ELSE GrowCap(Len(s.arr), newLen)
    IN [s EXCEPT !.len = newLen,
                 !.arr = <<>> \o [j \in 1..cap |->
                             IF j <= s.len THEN s.arr[j]
                             ELSE IF j <= newLen THEN xs[j - s.len]
                             ELSE IF j <= Len(s.arr) THEN s.arr[j] ELSE Nil]]

\* BringToFront exchanging e with the last element of the list.
BringToFront_SwapLast(ww, e) ==
    LET layer == Layer(e)
        list  == ww.layers[layer]
        i     == IndexOf(list, e)
        moved == IF i = 0 THEN list
                 ELSE [list EXCEPT !.arr[i] = list.arr[list.len], !.arr[list.len] = e]
    IN [ww EXCEPT !.layers[layer] = [moved EXCEPT !.ok = TRUE]]

\* World.BringToFront
BringToFront(ww, e) ==
    LET layer == Layer(e)
        list  == ww.layers[layer]
        i     == IndexOf(list, e)
        moved == IF i = 0 THEN list ELSE AppendTo(DeleteAt(list, i), e)
    IN [ww EXCEPT !.layers[layer] = [moved EXCEPT !.ok = TRUE]]

\* World.SendToBack
SendToBack(ww, e) ==
    LET layer == Layer(e)
        list  == ww.layers[layer]
        i     == IndexOf(list, e)
        moved == IF i = 0 THEN list
                 ELSE AppendAll([ok |-> TRUE, len |-> 1, arr |-> <<e>>],
                                Elems(DeleteAt(list, i)))
    IN [ww EXCEPT !.layers[layer] = [moved EXCEPT !.ok = TRUE]]

\* list[i], list[j] = list[j], list[i]
Swap(s, i, j) == [s EXCEPT !.arr[i] = s.arr[j], !.arr[j] = s.arr[i]]

\* World.BringForward
BringForward(ww, e) ==
    LET layer == Layer(e)
        list  == ww.layers[layer]
        hits  == {i \in 1..list.len : list.arr[i] = e /\ i < list.len}
    IN IF hits = {} THEN ww
       ELSE LET i == CHOOSE x \in hits : \A y \in hits : x <= y
            IN [ww EXCEPT !.layers[layer] = Swap(list, i, i + 1)]

\* World.SendBackward
SendBackward(ww, e) ==
    LET layer == Layer(e)
        list  == ww.layers[layer]
        hits  == {i \in 1..list.len : list.arr[i] = e /\ i > 1}
    IN IF hits = {} THEN ww
       ELSE LET i == CHOOSE x \in hits : \A y \in hits : x <= y
            IN [ww EXCEPT !.layers[layer] = Swap(list, i, i - 1)]

\* Recycle that also queues the removal of e from the container.
Recycle_Removing(ww, typeName, e) ==
    [ww EXCEPT !.pool[typeName] = Append(@, e), !.removeQueue = Append(@, e)]

\* World.Recycle
Recycle(ww, typeName, e) == [ww EXCEPT !.pool[typeName] = Append(@, e)]

\* Create taking the oldest entity of the pool.
CreateResult_Fifo(ww, typeName, fresh) ==
    LET lst == ww.pool[typeName]
    IN IF Len(lst) > 0 THEN lst[1] ELSE fresh

\* World.Create: the entity returned; fresh is what ctor() would return.
CreateResult(ww, typeName, fresh) ==
    LET lst == ww.pool[typeName]
    IN IF Len(lst) > 0 THEN lst[Len(lst)] ELSE fresh

\* World.Create: the number of calls of ctor it makes.
CtorCalls(ww, typeName) == IF Len(ww.pool[typeName]) > 0 THEN 0 ELSE 1

\* Create putting the entity it takes from the pool into its layer list.
Create_Revives(ww, typeName) ==
    LET lst == ww.pool[typeName]
    IN IF Len(lst) > 0
       THEN AddOne([ww EXCEPT !.pool[typeName] = SubSeq(lst, 1, Len(lst) - 1)],
                   lst[Len(lst)])
       ELSE ww

\* World.Create: the World it leaves.
Create(ww, typeName) ==
    LET lst == ww.pool[typeName]
    IN IF Len(lst) > 0
       THEN [ww EXCEPT !.pool[typeName] = SubSeq(lst, 1, Len(lst) - 1)]
       ELSE ww

\* --------------------------------------------------------------- traversal

\* No traversal in progress and no log of one.
NoTrav ==
    [active |-> FALSE, kind |-> "none", olen |-> 0, li |-> 0, lkey |-> 0,
     n |-> 0, ei |-> 0, visited |-> <<>>, vlayers |-> <<>>, start |-> <<>>,
     order |-> <<>>]

\* "for _, layer := range w.layerOrder { for _, e := range w.layers[layer] {":
\* the position of the next element to visit, from position t.  The range
\* expressions are evaluated once: olen is the length of layerOrder when the
\* outer loop started, n the length of the layer's list when its loop started.
\* order is the backing array of layerOrder of that time: an append to a
\* layerOrder of fewer than three keys moves it to a new array, so that a flush
\* made by a callback leaves the one being ranged over as it was.  The elements
\* of a list are read from its backing array as it is at the time of the read.
\* The result has li = 0 when both loops are over.
RECURSIVE Seek(_, _)
Seek(ww, t) ==
    IF t.ei < t.n THEN t
    ELSE IF t.li < t.olen
    THEN Seek(ww, [t EXCEPT !.li = t.li + 1,
                            !.lkey = t.order[t.li + 1],
                            !.n = ww.layers[t.order[t.li + 1]].len,
                            !.ei = 0])
    ELSE [t EXCEPT !.li = 0]

\* The queues and the lists are kept within the bounds.
QueueRoom(ww) == Len(ww.addQueue) + Len(ww.removeQueue) < MaxQueue

RECURSIVE SumAll(_, _)
SumAll(ww, ls) ==
    IF ls = {} THEN 0
    ELSE LET l == CHOOSE x \in ls : TRUE
         IN ww.layers[l].len + SumAll(ww, ls \ {l})

LiveRoom(ww, e) == SumAll(FlushQueues(Add(ww, e)), LayerIds) <= MaxLive

PoolSize(ww) == Len(ww.pool["Hero"]) + Len(ww.pool["Coin"])

\* ----------------------------------------------------------------- actions

Did(op, arg, ret) == last' = [op |-> op, arg |-> arg, ret |-> ret, pre |-> w]

\* Game code runs either outside every traversal, or inside the Update/Render/fn
\* of the entity being visited.
Outside == ~trav.active
InCallback == trav.active /\ trav.visited # <<>>

\* A call made outside a traversal forgets the log of the last traversal.
Forget == trav' = NoTrav

DoAdd(e) ==
    /\ Outside \/ InCallback
    /\ QueueRoom(w) /\ LiveRoom(w, e)
    /\ w' = Add(w, e)
    /\ Did("Add", e, Nil)
    /\ trav' = IF trav.active THEN trav ELSE NoTrav
    /\ UNCHANGED <<LayerID, eng, body>>

DoRemove(e) ==
    /\ Outside \/ InCallback
    /\ QueueRoom(w)
    /\ w' = Remove(w, e)
    /\ Did("Remove", e, Nil)
    /\ trav' = IF trav.active THEN trav ELSE NoTrav
    /\ UNCHANGED <<LayerID, eng, body>>

DoFlushQueues ==
    /\ Outside
    /\ w' = FlushQueues(w)
    /\ Did("FlushQueues", Nil, Nil)
    /\ Forget
    /\ UNCHANGED <<LayerID, eng, body>>

DoEntities ==
    /\ Outside \/ InCallback
    /\ w' = FlushQueues(w)
    /\ Did("Entities", Nil, Entities(w'))
    /\ trav' = IF trav.active THEN trav ELSE NoTrav
    /\ UNCHANGED <<LayerID, eng, body>>

DoCount ==
    /\ Outside \/ InCallback
    /\ w' = FlushQueues(w)
    /\ Did("Count", Nil, Count(w'))
    /\ trav' = IF trav.active THEN trav ELSE NoTrav
    /\ UNCHANGED <<LayerID, eng, body>>

DoLayerCount(layer) ==
    /\ Outside \/ InCallback
    /\ w' = FlushQueues(w)
    /\ Did("LayerCount", layer, LayerCount(w', layer))
    /\ trav' = IF trav.active THEN trav ELSE NoTrav
    /\ UNCHANGED <<LayerID, eng, body>>

DoTypeCount(typeName) ==
    /\ Outside \/ InCallback
    /\ w' = FlushQueues(w)
    /\ Did("TypeCount", typeName, TypeCount(w', typeName))
    /\ trav' = IF trav.active THEN trav ELSE NoTrav
    /\ UNCHANGED <<LayerID, eng, body>>

DoBringToFront(e) ==
    /\ Outside
    /\ w' = BringToFront(w, e)
    /\ Did("BringToFront", e, Nil)
    /\ Forget
    /\ UNCHANGED <<LayerID, eng, body>>

DoSendToBack(e) ==
    /\ Outside
    /\ w' = SendToBack(w, e)
    /\ Did("SendToBack", e, Nil)
    /\ Forget
    /\ UNCHANGED <<LayerID, eng, body>>

DoBringForward(e) ==
    /\ Outside
    /\ w' = BringForward(w, e)
    /\ Did("BringForward", e, Nil)
    /\ Forget
    /\ UNCHANGED <<LayerID, eng, body>>

DoSendBackward(e) ==
    /\ Outside
    /\ w' = SendBackward(w, e)
    /\ Did("SendBackward", e, Nil)
    /\ Forget
    /\ UNCHANGED <<LayerID, eng, body>>

DoRecycle(typeName, e) ==
    /\ Outside
    /\ PoolSize(w) < MaxPool
    /\ w' = Recycle(w, typeName, e)
    /\ Did("Recycle", <<typeName, e>>, Nil)
    /\ Forget
    /\ UNCHANGED <<LayerID, eng, body>>

DoCreate(typeName, fresh) ==
    /\ Outside
    /\ w' = Create(w, typeName)
    /\ Did("Create", <<typeName, fresh>>, CreateResult(w, typeName, fresh))
    /\ Forget
    /\ UNCHANGED <<LayerID, eng, body>>

\* Game code assigns the entity's LayerID field; the log keeps the value it had.
SetLayer(e, layer) ==
    /\ Outside \/ InCallback
    /\ LayerID[e] # layer
    /\ LayerID' = [LayerID EXCEPT ![e] = layer]
    /\ Did("SetLayer", <<e, layer>>, LayerID[e])
    /\ trav' = IF trav.active THEN trav ELSE NoTrav
    /\ UNCHANGED <<w, eng, body>>

\* World.Update, World.Render, World.ForEach: the flush and the start of the loops.
TravBegin(kind) ==
    /\ Outside
    /\ w' = FlushQueues(w)
    /\ trav' = [active |-> TRUE, kind |-> kind, olen |-> Len(w'.layerOrder),
                li |-> 0, lkey |-> 0, n |-> 0, ei |-> 0,
                visited |-> <<>>, vlayers |-> <<>>, start |-> Entities(w'),
                order |-> w'.layerOrder]
    /\ Did(kind, Nil, Nil)
    /\ UNCHANGED <<LayerID, eng, body>>

\* The loops reach their next element and call its Update, its Render or fn on it.
TravVisit ==
    /\ trav.active
    /\ LET t == Seek(w, trav)
       IN /\ t.li # 0
          /\ LET e == w.layers[t.lkey].arr[t.ei + 1]
             IN /\ trav' = [t EXCEPT !.ei = t.ei + 1,
                                      !.visited = Append(@, e),
                                      !.vlayers = Append(@, t.lkey)]
                /\ Did("Visit", e, Nil)
    /\ UNCHANGED <<w, LayerID, eng, body>>

\* The loops are over and the traversal returns.
TravEnd ==
    /\ trav.active
    /\ Seek(w, trav).li = 0
    /\ trav' = [trav EXCEPT !.active = FALSE]
    /\ Did("Return", Nil, Nil)
    /\ UNCHANGED <<w, LayerID, eng, body>>

\* ------------------------------------------------------------------ Engine

\* The frame rates the engines are constructed with.
FpsValues == {20, 60}

\* The measured frame deltas, now - previous.
DtValues == -1..MaxDt

\* maxFrameSkip: 5
MaxFrameSkip == 5

\* What the game does with the engine inside Game.Update or Game.Draw.
Callbacks == {"none", "Pause", "Resume"}

\* The values the game gives the time scale Rate in Game.Create.
RateValues == {1, 2}

\* Go's integer division, which truncates toward zero (b # 0).
GoDiv(a, b) ==
    LET abs(x) == IF x < 0 THEN -x ELSE x
        q == abs(a) \div abs(b)
    IN IF (a < 0) = (b < 0) THEN q ELSE -q

\* 2^p.
RECURSIVE Pow2(_)
Pow2(p) == IF p = 0 THEN 1 ELSE 2 * Pow2(p - 1)

\* The spacing of the values with a mantissa of p bits around x >= 0: the least
\* power of two s with x \div s < 2^p.
RECURSIVE Ulp(_, _, _)
Ulp(x, p, s) == IF x \div s < Pow2(p) THEN s ELSE Ulp(x, p, 2 * s)

\* The result of a float64 operation whose exact value is x: the nearest value
\* with a mantissa of p bits, a tie going to the even mantissa.
Float64(x, p) ==
    LET a  == IF x < 0 THEN -x ELSE x
        s  == Ulp(a, p, 1)
        m  == a \div s
        r  == a % s
        up == (2 * r > s) \/ (2 * r = s /\ m % 2 = 1)
        v  == (IF up THEN m + 1 ELSE m) * s
    IN IF x < 0 THEN -v ELSE v

\* NewEngine, and the locals and globals as Run has them before its first frame.
\* "time.Second / time.Duration(fps)" is an integer division: with fps = 0 it
\* panics and no Engine is returned (pc = "panic").
NewEngine(fps, fixed) ==
    [fps          |-> fps,
     fixed        |-> fixed,
     tickRate     |-> IF fps = 0 THEN 0 ELSE GoDiv(Second, fps),
     maxElapsed   |-> Second \div 10,
     maxFrameSkip |-> MaxFrameSkip,
     paused       |-> FALSE,
     pc           |-> IF fps = 0 THEN "panic" ELSE "create",
     lag          |-> 0,
     dt           |-> 0,
     Rate         |-> 1,
     Elapsed      |-> 0,
     Interp       |-> [num |-> 0, den |-> 1],
     mant         |-> ExactBits,
     \* "previous", as the time from it to the last reading of the clock
     behind       |-> 0,
     \* what the frame did, for the properties
     frames       |-> 0,
     startPaused  |-> FALSE,
     lagBefore    |-> 0,
     acc          |-> 0,
     updates      |-> 0,
     updateDt     |-> 0,
     drawn        |-> [num |-> 0, den |-> 1],
     raw          |-> 0,        \* the time from the last reading of the clock to this one
     snaps        |-> 0,        \* the snapshot passes of the frame
     draws        |-> 0,        \* the Game.Draw calls of the frame
     calls        |-> <<>>,     \* the calls of the game made in the frame, in order
     creates      |-> 0,        \* the Game.Create calls
     updatedPaused |-> FALSE,   \* Game.Update was called while paused was set
     resumed      |-> FALSE,    \* the frame began unpaused, the one before paused
     pausedLag    |-> 0]        \* the lag when the last run of paused frames began

\* previous left where it was in a paused frame, so that the next delta spans
\* the paused frames too.
Measure_SkipPaused(behind, raw, paused) ==
    [dt |-> behind + raw, behind |-> IF paused THEN Min(behind + raw, MaxDt) ELSE 0]

\* "now := rl.GetTime(); dt := now - previous; previous = now", with raw the time
\* from the last reading of the clock to this one.
Measure(behind, raw, paused) == [dt |-> behind + raw, behind |-> 0]

\* The clamp of dt left out.
ClampDt_Off(dt, maxElapsed) == dt

\* "if dt > e.maxElapsed { dt = e.maxElapsed }"
ClampDt(dt, maxElapsed) == IF dt > maxElapsed THEN maxElapsed ELSE dt

\* Elapsed published without the time scale.
ElapsedOf_Unscaled(dt, rate) == dt

\* "Elapsed = dt * Rate"
ElapsedOf(dt, rate) == dt * rate

\* The cap on the lag left out.
CapLag_Off(lag, step, maxFrameSkip) == lag

\* "if lag > step*float64(e.maxFrameSkip) { lag = step * float64(e.maxFrameSkip) }"
CapLag(lag, step, maxFrameSkip) ==
    IF lag > step * maxFrameSkip THEN step * maxFrameSkip ELSE lag

\* The update part run whether paused or not.
Simulates_Always(en) == TRUE

\* "if !e.paused"
Simulates(en) == ~en.paused

\* The stepping loop waiting for more than a whole step.
StepDue_Strict(lag, step) == lag > step

\* "for lag >= step"
StepDue(lag, step) == lag >= step

\* Engine.Pause, Engine.Resume, called by the game from a callback.
Called(en, cb) ==
    IF cb = "Pause" THEN [en EXCEPT !.paused = TRUE]
    ELSE IF cb = "Resume" THEN [en EXCEPT !.paused = FALSE]
    ELSE en

\* NewBaseEntity(0, 0, layer) for every entity: prevRawX starts as rawX. snaps
\* counts the Snapshot calls of the frame, before is rawX as it was before the
\* last Game.Update of a fixed step.
NewBodies == [e \in Ent |-> [x |-> 0, prev |-> 0, snaps |-> 0, before |-> 0]]

\* The entities of the lists of ww.
Live(ww) == {Entities(ww)[i] : i \in 1..Len(Entities(ww))}

\* BaseEntity.Snapshot of e.
Snapshot(b, e) == [b EXCEPT ![e].prev = b[e].x, ![e].snaps = b[e].snaps + 1]

\* "for _, ent := range CurrentWorld.Entities() { ... s.Snapshot() }" over list.
RECURSIVE SnapshotAll(_, _)
SnapshotAll(b, list) ==
    IF list = <<>> THEN b ELSE SnapshotAll(Snapshot(b, Head(list)), Tail(list))

\* A frame begins: no Snapshot call made in it yet.
NewFrame(b) == [e \in Ent |-> [b[e] EXCEPT !.snaps = 0]]

\* Game.Update of a game whose live entities each MoveBy(1, 0).
GameUpdate(b, ww) ==
    [e \in Ent |-> IF e \in Live(ww)
                   THEN [b[e] EXCEPT !.before = b[e].x, !.x = b[e].x + 1]
                   ELSE b[e]]

\* The positions stay within 0..MaxX.
CanMove(b, ww) == \A e \in Live(ww) : b[e].x < MaxX

\* Run, up to its loop: the window, Game.Create (which sets the time scale),
\* previous and lag.
EngCreate(rate) ==
    /\ eng.pc = "create"
    /\ eng' = [eng EXCEPT !.pc = "measure", !.Rate = rate, !.creates = eng.creates + 1]
    /\ UNCHANGED <<w, LayerID, trav, last, body>>

\* One pass of the loop from the measure of dt to the first call of the game:
\* the clamp, Elapsed and, unless paused, the lag, its cap and the snapshots
\* (fixed mode) or the one Game.Update(dt) (variable mode).
BeginFrame(raw, cb) ==
    /\ eng.pc = "measure"
    /\ raw < 0 => eng.lag + raw >= -MaxRegress
    /\ LET m  == Measure(eng.behind, raw, eng.paused)
           dt == ClampDt(Float64(m.dt, eng.mant), eng.maxElapsed)
           \* lag += dt
           sum == Float64(eng.lag + dt, eng.mant)
           e1 == [eng EXCEPT !.dt = dt, !.Elapsed = Float64(ElapsedOf(dt, eng.Rate), eng.mant),
                             !.behind = m.behind,
                             !.frames = Min(eng.frames + 1, 2),
                             !.startPaused = eng.paused,
                             !.lagBefore = eng.lag, !.acc = eng.lag,
                             !.updates = 0, !.updateDt = 0,
                             !.raw = raw, !.snaps = 0, !.draws = 0, !.calls = <<>>,
                             !.resumed = (eng.startPaused /\ ~eng.paused),
                             !.pausedLag = IF eng.paused /\ ~eng.startPaused
                                           THEN eng.lag ELSE eng.pausedLag]
       IN IF ~Simulates(eng)
          THEN /\ cb = "none"
               /\ eng' = [e1 EXCEPT !.pc = "render"]
               /\ body' = NewFrame(body)
               /\ UNCHANGED <<w, trav, last>>
          ELSE IF eng.fixed
          THEN /\ cb = "none"
               /\ eng' = [e1 EXCEPT !.lag = Float64(CapLag(sum, eng.tickRate,
                                                           eng.maxFrameSkip),
                                                    eng.mant),
                                    !.acc = sum,
                                    !.snaps = 1,
                                    !.pc = "steps"]
               /\ w' = FlushQueues(w)
               /\ Did("Entities", Nil, Entities(w'))
               /\ trav' = NoTrav
               /\ body' = SnapshotAll(NewFrame(body), Entities(w'))
          ELSE /\ eng' = Called([e1 EXCEPT !.updates = 1, !.updateDt = dt,
                                           !.calls = <<"Update">>,
                                           !.updatedPaused = (@ \/ eng.paused),
                                           !.pc = "render"], cb)
               /\ CanMove(body, w)
               /\ body' = GameUpdate(NewFrame(body), w)
               /\ UNCHANGED <<w, trav, last>>
    /\ UNCHANGED LayerID

\* "for lag >= step { e.game.Update(step); lag -= step }": one pass.
FixedStep(cb) ==
    /\ eng.pc = "steps"
    /\ StepDue(eng.lag, eng.tickRate)
    /\ eng' = Called([eng EXCEPT !.lag = Float64(eng.lag - eng.tickRate, eng.mant),
                                 !.updates = eng.updates + 1,
                                 !.updateDt = eng.tickRate,
                                 !.calls = Append(@, "Update"),
                                 !.updatedPaused = (@ \/ eng.paused)], cb)
    /\ CanMove(body, w)
    /\ body' = GameUpdate(body, w)
    /\ UNCHANGED <<w, LayerID, trav, last>>

\* The stepping loop ends.
EndSteps ==
    /\ eng.pc = "steps"
    /\ ~StepDue(eng.lag, eng.tickRate)
    /\ eng' = [eng EXCEPT !.pc = "render"]
    /\ UNCHANGED <<w, LayerID, trav, last, body>>

\* float32(num / den): the nearest multiple of 1/Float32Grid, a tie going to the
\* even one, kept as a fraction.
Float32(num, den) ==
    LET q  == num * Float32Grid
        lo == q \div den
        r  == q % den
        up == (2 * r > den) \/ (2 * r = den /\ lo % 2 = 1)
    IN [num |-> IF up THEN lo + 1 ELSE lo, den |-> Float32Grid]

\* The interpolation factor: float32(lag / e.tickRate.Seconds()) in fixed mode,
\* 0 in variable mode.
Alpha(en) ==
    IF ~en.fixed THEN [num |-> 0, den |-> 1]
    ELSE IF en.tickRate < 0 THEN Float32(-en.lag, -en.tickRate)
    ELSE Float32(en.lag, en.tickRate)

\* The rendering part skipped while the engine is paused.
Draw_NotWhenPaused(cb) ==
    /\ eng.pc = "render"
    /\ eng' = IF eng.paused THEN [eng EXCEPT !.pc = "measure"]
              ELSE Called([eng EXCEPT !.Interp = Alpha(eng), !.drawn = Alpha(eng),
                                      !.draws = eng.draws + 1,
                                      !.calls = Append(@, "Draw"),
                                      !.pc = "measure"], cb)
    /\ UNCHANGED <<w, LayerID, trav, last, body>>

\* The rendering part of the pass: Interp and Game.Draw.
Draw(cb) ==
    /\ eng.pc = "render"
    /\ eng' = Called([eng EXCEPT !.Interp = Alpha(eng), !.drawn = Alpha(eng),
                                 !.draws = eng.draws + 1,
                                 !.calls = Append(@, "Draw"),
                                 !.pc = "measure"], cb)
    /\ UNCHANGED <<w, LayerID, trav, last, body>>

InitEngine ==
    /\ w = NewWorld
    /\ LayerID = [e \in Ent |-> 0]
    /\ trav = NoTrav
    /\ last = [op |-> "NewWorld", arg |-> Nil, ret |-> Nil, pre |-> NewWorld]
    /\ \E fps \in FpsValues, fixed \in BOOLEAN : eng = NewEngine(fps, fixed)
    /\ body = NewBodies

NextEngine ==
    \/ \E rate \in RateValues : EngCreate(rate)
    \/ \E raw \in DtValues, cb \in Callbacks : BeginFrame(raw, cb)
    \/ \E cb \in Callbacks : FixedStep(cb)
    \/ EndSteps
    \/ \E cb \in Callbacks : Draw(cb)

\* The frame loop of an Engine, for every sequence of measured deltas and of
\* Pause/Resume calls made by the game.
SpecEngine == InitEngine /\ [][NextEngine]_vars

\* The frame rates a caller may pass to NewEngine, the unusable ones with them.
ConfigFps == {-20, 0, 20}

InitConfig ==
    /\ w = NewWorld
    /\ LayerID = [e \in Ent |-> 0]
    /\ trav = NoTrav
    /\ last = [op |-> "NewWorld", arg |-> Nil, ret |-> Nil, pre |-> NewWorld]
    /\ \E fps \in ConfigFps, fixed \in BOOLEAN : eng = NewEngine(fps, fixed)
    /\ body = NewBodies

InitFloat ==
    /\ w = NewWorld
    /\ LayerID = [e \in Ent |-> 0]
    /\ trav = NoTrav
    /\ last = [op |-> "NewWorld", arg |-> Nil, ret |-> Nil, pre |-> NewWorld]
    /\ \E fps \in FpsValues, fixed \in BOOLEAN :
           eng = [NewEngine(fps, fixed) EXCEPT !.mant = FloatBits]
    /\ body = NewBodies

\* The frame loop with the float64 arithmetic of Run rounding.
SpecFloat == InitFloat /\ [][NextEngine]_vars

\* The Worlds a game has built by the time Run measures its first frame: an Add
\* still queued, the same entity passed to Add twice, and an entity taken in by
\* a flush with an Add of another queued.
SnapWorlds ==
    {Add(NewWorld, 1),
     Add(Add(NewWorld, 1), 1),
     Add(FlushQueues(Add(NewWorld, 1)), 2)}

InitSnap ==
    /\ LayerID = [e \in Ent |-> 0]
    /\ w \in SnapWorlds
    /\ trav = NoTrav
    /\ last = [op |-> "NewWorld", arg |-> Nil, ret |-> Nil, pre |-> NewWorld]
    /\ eng = NewEngine(20, TRUE)
    /\ body = NewBodies

\* The fixed-mode frame loop over a World that holds entities which the game
\* moves in Game.Update.
SpecSnap == InitSnap /\ [][NextEngine]_vars

\* NewEngine with any frame rate, and Run on what it returned.
SpecConfig == InitConfig /\ [][NextEngine]_vars


\* The layers the entities are constructed on (NewBaseEntity): all on one
\* layer, the first above the others, the first below the others.
InitLayers ==
    {[e \in Ent |-> 0],
     [e \in Ent |-> IF e = 1 THEN 1 ELSE 0],
     [e \in Ent |-> IF e = 1 THEN 0 ELSE MaxLayer]}

Init ==
    /\ w = NewWorld
    /\ LayerID \in InitLayers
    /\ trav = NoTrav
    /\ last = [op |-> "NewWorld", arg |-> Nil, ret |-> Nil, pre |-> NewWorld]
    /\ eng = NewEngine(60, TRUE)
    /\ body = NewBodies

Next ==
    \/ \E e \in Ent : DoAdd(e)
    \/ \E e \in Ent : DoRemove(e)
    \/ DoFlushQueues
    \/ Outside /\ DoEntities
    \/ Outside /\ DoCount
    \/ \E l \in LayerIds : Outside /\ DoLayerCount(l)
    \/ \E k \in TypeNames : Outside /\ DoTypeCount(k)
    \/ \E kind \in {"Update", "Render", "ForEach"} : TravBegin(kind)
    \/ TravVisit
    \/ TravEnd

\* The container under Add, Remove, the flushing calls and the traversals, for
\* entities whose LayerID stays as constructed; the callbacks of a traversal call
\* Add and Remove, the flushing calls are made outside the traversals.
Spec == Init /\ [][Next]_vars

\* The z-order calls are followed with at most MaxQueueOrder calls in the queues.
OrderRoom == Len(w.addQueue) + Len(w.removeQueue) < MaxQueueOrder

NextOrder ==
    \/ \E e \in Ent : OrderRoom /\ DoAdd(e)
    \/ \E e \in Ent : OrderRoom /\ DoRemove(e)
    \/ DoFlushQueues
    \/ \E e \in Ent : DoBringToFront(e)
    \/ \E e \in Ent : DoSendToBack(e)
    \/ \E e \in Ent : DoBringForward(e)
    \/ \E e \in Ent : DoSendBackward(e)

\* The container under Add, Remove, the flushing calls and the four z-order
\* calls, made outside the traversals.
SpecOrder == Init /\ [][NextOrder]_vars

\* The pool calls are followed with at most MaxQueuePool calls in the queues.
PoolRoom == Len(w.addQueue) + Len(w.removeQueue) < MaxQueuePool

NextPool ==
    \/ \E e \in Ent : PoolRoom /\ DoAdd(e)
    \/ \E e \in Ent : PoolRoom /\ DoRemove(e)
    \/ DoFlushQueues
    \/ \E k \in TypeNames, e \in Ent : DoRecycle(k, e)
    \/ \E k \in TypeNames : DoCreate(k, NumEnt)   \* ctor allocates entity NumEnt
    \/ \E kind \in {"Update", "Render", "ForEach"} : TravBegin(kind)
    \/ TravVisit
    \/ TravEnd

\* The pool calls are followed for entities constructed on two layers.
InitPool == Init /\ LayerID = [e \in Ent |-> IF e = 1 THEN 1 ELSE 0]

\* The container and its recycling pool under Add, Remove, FlushQueues, Recycle,
\* Create and the traversals.
SpecPool == InitPool /\ [][NextPool]_vars

\* Every entity is constructed on layer 0.
InitLayer == Init /\ LayerID = [e \in Ent |-> 0]

\* The callbacks of a traversal queue at most MaxQueueNested calls before they
\* make a flushing call.
NestedRoom == Len(w.addQueue) + Len(w.removeQueue) < MaxQueueNested

NextNested ==
    \/ \E e \in Ent : NestedRoom /\ DoAdd(e)
    \/ \E e \in Ent : NestedRoom /\ DoRemove(e)
    \/ InCallback /\ DoEntities
    \/ InCallback /\ DoCount
    \/ \E kind \in {"Update", "ForEach"} : TravBegin(kind)
    \/ TravVisit
    \/ TravEnd

\* The container under traversals whose callbacks queue Add and Remove and make
\* flushing calls, for entities of one layer.
SpecNested == InitLayer /\ [][NextNested]_vars

\* The LayerID changes are followed with at most MaxQueueLayer calls in the queues.
LayerRoom == Len(w.addQueue) + Len(w.removeQueue) < MaxQueueLayer

\* The game moves an entity off the layer it was constructed on, once.
NextLayer ==
    \/ \E e \in Ent : LayerRoom /\ DoAdd(e)
    \/ \E e \in Ent : LayerRoom /\ DoRemove(e)
    \/ DoFlushQueues
    \/ DoEntities
    \/ \E e \in Ent, l \in LayerIds : LayerID[e] = 0 /\ SetLayer(e, l)

\* The container under Add, Remove and the flushing calls, for entities whose
\* LayerID the game changes between the calls.
SpecLayer == InitLayer /\ [][NextLayer]_vars

\* ------------------------------------------------- the flush rule, stated abstractly

\* The calls that flush the queues, explicitly or as their first step.
FlushOps ==
    {"FlushQueues", "Entities", "Count", "LayerCount", "TypeCount",
     "Update", "Render", "ForEach"}

\* The last call flushed the queues.
Flushed == last.op \in FlushOps

\* The list of every layer key, as a sequence of entities.
Lists(ww) == [l \in LayerIds |-> Elems(ww.layers[l])]

\* The number of times e occurs in the sequence s.
Occ(s, e) == Cardinality({i \in 1..Len(s) : s[i] = e})

\* s without the first element equal to e.
RECURSIVE WithoutFirst(_, _)
WithoutFirst(s, e) ==
    IF s = <<>> THEN <<>>
    ELSE IF Head(s) = e THEN Tail(s)
    ELSE <<Head(s)>> \o WithoutFirst(Tail(s), e)

\* The flush rule on lists: the queued removals in call order, each deleting the
\* first match from the entity's layer list, then the queued additions in call
\* order, each appended to the entity's layer list.
RECURSIVE RuleRemovals(_, _)
RuleRemovals(L, q) ==
    IF q = <<>> THEN L
    ELSE RuleRemovals([L EXCEPT ![Layer(Head(q))] = WithoutFirst(@, Head(q))], Tail(q))

RECURSIVE RuleAdditions(_, _)
RuleAdditions(L, q) ==
    IF q = <<>> THEN L
    ELSE RuleAdditions([L EXCEPT ![Layer(Head(q))] = Append(@, Head(q))], Tail(q))

FlushRule(L, rq, aq) == RuleAdditions(RuleRemovals(L, rq), aq)

\* The lists of the layers l, l+1, ... in ascending key order, concatenated.
RECURSIVE ConcatFrom(_, _)
ConcatFrom(L, l) == IF l > MaxLayer THEN <<>> ELSE L[l] \o ConcatFrom(L, l + 1)

\* The number of queued removals of e that find a match in the World ww.
Deleted(ww, e) ==
    Min(Occ(ww.removeQueue, e), Occ(Elems(ww.layers[Layer(e)]), e))

\* The queued removals that find their entity, in call order.
RECURSIVE Effective(_, _)
Effective(L, q) ==
    IF q = <<>> THEN <<>>
    ELSE LET e == Head(q)
         IN IF Occ(L[Layer(e)], e) > 0
            THEN <<e>> \o Effective([L EXCEPT ![Layer(e)] = WithoutFirst(@, e)], Tail(q))
            ELSE Effective(L, Tail(q))

\* a is b with some elements left out, the others in b's order.
RECURSIVE IsSubseq(_, _)
IsSubseq(a, b) ==
    IF a = <<>> THEN TRUE
    ELSE IF b = <<>> THEN FALSE
    ELSE IF Head(a) = Head(b) THEN IsSubseq(Tail(a), Tail(b))
    ELSE IsSubseq(a, Tail(b))

\* The queued additions of the World ww that go to layer l, in call order.
AddsTo(ww, l) == LET OnL(e) == Layer(e) = l IN SelectSeq(ww.addQueue, OnL)

\* The layer key of every element of Entities(ww), in the same order.
RECURSIVE KeysOf(_, _)
KeysOf(ww, order) ==
    IF order = <<>> THEN <<>>
    ELSE [i \in 1..ww.layers[Head(order)].len |-> Head(order)] \o KeysOf(ww, Tail(order))

\* The elements of s are in ascending order of their keys k.
Ascending(k) == \A i, j \in 1..Len(k) : k[i] < k[j] => i < j

\* ------------------------------------------------------------------ claims

C2_NoDuplicates ==
    last.op = "Entities" => \A e \in Ent : Occ(last.ret, e) <= 1

\* C3: when a traversal returns, every entity live at its start was visited
\* exactly once, in the order of Entities() at the start, no other entity was
\* visited, and the calls queued meanwhile have not changed the lists.
C3_VisitedOnce ==
    last.op = "Return" =>
        /\ \A e \in Ent :
              Occ(trav.visited, e) = IF Occ(trav.start, e) > 0 THEN 1 ELSE 0
        /\ IsSubseq(trav.visited, trav.start)
        /\ Entities(w) = trav.start

C7_InsertionOrder ==
    Flushed =>
        /\ \A l \in LayerIds :
              LET old  == Lists(last.pre)[l]
                  new  == Lists(w)[l]
                  adds == AddsTo(last.pre, l)
                  k    == Len(new) - Len(adds)
              IN /\ k >= 0
                 /\ SubSeq(new, k + 1, Len(new)) = adds
                 /\ IsSubseq(SubSeq(new, 1, k), old)
        /\ \A A, B, C \in Ent :
              (A # B /\ Layer(A) = 1 /\ Layer(B) = 0) =>
                 /\ ( /\ Entities(last.pre) = <<>>
                      /\ last.pre.removeQueue = <<>>
                      /\ last.pre.addQueue = <<A, B>> )
                    => Entities(w) = <<B, A>>
                 /\ ( /\ C # A /\ C # B /\ Layer(C) = 0
                      /\ Entities(last.pre) = <<B, A>>
                      /\ last.pre.removeQueue = <<B>>
                      /\ last.pre.addQueue = <<C>> )
                    => Entities(w) = <<C, A>>

\* The second flush of the scenario: [B, A] with Remove(B), Add(C) queued gave [C, A].
C7_Witness ==
    /\ Flushed
    /\ Layer(1) = 1 /\ Layer(2) = 0 /\ Layer(3) = 0
    /\ Entities(last.pre) = <<2, 1>>
    /\ last.pre.removeQueue = <<2>>
    /\ last.pre.addQueue = <<3>>
    /\ Entities(w) = <<3, 1>>

\* C8: a FlushQueues right after a flush, with nothing queued in between, leaves
\* the whole World as the first one left it.
C8_FlushIdempotent ==
    /\ Flushed => FlushQueues(w) = w
    /\ ( /\ last.op = "FlushQueues"
         /\ last.pre.addQueue = <<>>
         /\ last.pre.removeQueue = <<>> )
       => w = last.pre

\* A FlushQueues with nothing queued, on a World that holds entities.
C8_Witness ==
    /\ last.op = "FlushQueues"
    /\ last.pre.addQueue = <<>> /\ last.pre.removeQueue = <<>>
    /\ Len(Entities(last.pre)) = 2
    /\ w = last.pre

\* C9: Add(e) and Remove(e) append e to their queue and change nothing else of
\* the World; the lists change only in a call that flushes, and every such call
\* empties the queues and makes the queued additions live.
C9_NoImmediateVisibility ==
    /\ last.op = "Add" =>
          /\ w.addQueue = Append(last.pre.addQueue, last.arg)
          /\ w.removeQueue = last.pre.removeQueue
    /\ last.op = "Remove" =>
          /\ w.removeQueue = Append(last.pre.removeQueue, last.arg)
          /\ w.addQueue = last.pre.addQueue
    /\ last.op \in {"Add", "Remove"} =>
          /\ w.layers = last.pre.layers
          /\ w.layerOrder = last.pre.layerOrder
          /\ w.typeCounts = last.pre.typeCounts
          /\ w.pool = last.pre.pool
          /\ Entities(w) = Entities(last.pre)
    /\ Lists(w) # Lists(last.pre) => Flushed
    /\ Flushed =>
          /\ w.addQueue = <<>> /\ w.removeQueue = <<>>
          /\ \A e \in Ent :
                (Occ(last.pre.addQueue, e) > 0 /\ Occ(Entities(last.pre), e) = 0)
                => Occ(Entities(w), e) > 0

\* Add(e) was called on a World that holds another entity: e is queued, not listed.
C9_Witness ==
    /\ last.op = "Add"
    /\ Entities(w) # <<>>
    /\ Occ(Entities(w), last.arg) = 0
    /\ Occ(w.addQueue, last.arg) = 1

\* C10: a queued removal that does not find its entity changes nothing: the flush
\* gives the World it would give without that removal in the queue; with no
\* removal that finds its entity and nothing to add, the lists, the layer order
\* and the type counts stay as they were; an entity added and removed in the same
\* cycle, and not live before, is live after the flush.
C10_AbsentRemoveNoOp ==
    Flushed =>
        LET eff == Effective(Lists(last.pre), last.pre.removeQueue)
        IN /\ w = FlushQueues([last.pre EXCEPT !.removeQueue = eff])
           /\ (eff = <<>> /\ last.pre.addQueue = <<>>) =>
                 /\ w.layers = last.pre.layers
                 /\ w.layerOrder = last.pre.layerOrder
                 /\ w.typeCounts = last.pre.typeCounts
           /\ \A e \in Ent :
                 ( /\ Occ(last.pre.addQueue, e) > 0
                   /\ Occ(last.pre.removeQueue, e) > 0
                   /\ Occ(Lists(last.pre)[Layer(e)], e) = 0 )
                 => Occ(Entities(w), e) > 0

\* A flush with Add(e) and Remove(e) queued for an entity that was not live, on a
\* World that holds another entity: e is live afterwards.
C10_Witness ==
    /\ last.op = "FlushQueues"
    /\ Entities(last.pre) # <<>>
    /\ \E e \in Ent :
          /\ Occ(last.pre.addQueue, e) > 0
          /\ Occ(last.pre.removeQueue, e) > 0
          /\ Occ(Entities(last.pre), e) = 0
          /\ Occ(Entities(w), e) = 1

\* C4: in fixed mode the lag, from the start of the stepping loop to the end of
\* the frame, is at most step * maxFrameSkip, and a frame makes at most
\* maxFrameSkip calls of Game.Update.
C4_SpiralBound ==
    eng.fixed =>
        /\ eng.lag <= eng.tickRate * eng.maxFrameSkip
        /\ eng.updates <= eng.maxFrameSkip

\* A fixed-mode frame has ended whose lag was cut to the cap and that made
\* maxFrameSkip updates.
C4_Witness ==
    /\ eng.fixed
    /\ eng.pc = "measure" /\ eng.frames > 0
    /\ eng.acc > eng.tickRate * eng.maxFrameSkip
    /\ eng.updates = eng.maxFrameSkip

\* C5: the factor passed to Game.Draw and stored in Interp is in [0, 1) in every
\* frame of a fixed-mode engine and is 0 in every frame of a variable-mode engine.
C5_InterpBound ==
    (eng.frames > 0 /\ eng.pc = "measure") =>
        /\ eng.Interp = eng.drawn
        /\ eng.drawn.den > 0
        /\ IF eng.fixed
           THEN 0 <= eng.drawn.num /\ eng.drawn.num < eng.drawn.den
           ELSE eng.drawn.num = 0

\* The position of the last element of s equal to e, 0 when there is none.
LastIndexOf(s, e) ==
    IF Occ(s, e) = 0 THEN 0
    ELSE CHOOSE i \in 1..Len(s) : s[i] = e /\ \A j \in (i + 1)..Len(s) : s[j] # e

\* C11: a flush with one Remove(e) and one Add(e) queued for a live entity e leaves
\* e live exactly once, behind every entity that was resident in its layer before
\* the flush, and last in its layer's list (e being the last addition queued for
\* that layer).
C11_ReAddedLast ==
    Flushed =>
        \A e \in Ent :
            ( /\ Occ(Lists(last.pre)[Layer(e)], e) > 0
              /\ Occ(last.pre.removeQueue, e) = 1
              /\ Occ(last.pre.addQueue, e) = 1 )
            => LET before == Lists(last.pre)[Layer(e)]
                   after  == Lists(w)[Layer(e)]
                   adds   == AddsTo(last.pre, Layer(e))
               IN /\ Occ(Entities(w), e) = 1
                  /\ \A j \in 1..Len(after) :
                        (after[j] # e /\ Occ(before, after[j]) > 0)
                            => j < LastIndexOf(after, e)
                  /\ adds[Len(adds)] = e => after[Len(after)] = e

\* The number of entries of the sequence s whose kind is typeName.
KindCount(s, typeName) ==
    Cardinality({i \in 1..Len(s) : TypeName(s[i]) = typeName})

\* C12: outside a flush, for every kind k the count kept for k, which is what
\* TypeCount(k) returns once the queues are flushed, is the number of entries of
\* Entities() whose kind is k, and it is never negative.
C12_TypeCounts ==
    \A k \in TypeNames :
        /\ w.typeCounts[k] >= 0
        /\ w.typeCounts[k] = KindCount(Entities(w), k)
        /\ LET f == FlushQueues(w)
           IN TypeCount(f, k) = KindCount(Entities(f), k)
        /\ (last.op = "TypeCount" /\ last.arg = k)
              => last.ret = KindCount(Entities(w), k)

\* The entities Create(typeName, ctor) returns, call after call, until the pool
\* of typeName is empty.
RECURSIVE Drain(_, _)
Drain(ww, typeName) ==
    IF ww.pool[typeName] = <<>> THEN <<>>
    ELSE <<CreateResult(ww, typeName, Nil)>> \o Drain(Create(ww, typeName), typeName)

RECURSIVE Reverse(_)
Reverse(s) == IF s = <<>> THEN <<>> ELSE Append(Reverse(Tail(s)), Head(s))

\* C13: right after Recycle(k, e), Create(k, ctor) returns e without calling ctor
\* and leaves the pool as it was before the Recycle; a Create on a non-empty pool
\* returns the entity recycled last under that kind and takes it off; successive
\* Create calls return the pool of a kind in last-in-first-out order; Recycle and
\* Create on one kind leave the pool of every other kind alone.
C13_PoolRoundTrip ==
    /\ \A k \in TypeNames : Drain(w, k) = Reverse(w.pool[k])
    /\ last.op = "Recycle" =>
          LET k == last.arg[1]
              e == last.arg[2]
          IN /\ w.pool[k] = Append(last.pre.pool[k], e)
             /\ \A fresh \in Ent : CreateResult(w, k, fresh) = e
             /\ CtorCalls(w, k) = 0
             /\ Create(w, k) = last.pre
             /\ \A k2 \in TypeNames \ {k} : w.pool[k2] = last.pre.pool[k2]
    /\ (last.op = "Create" /\ last.pre.pool[last.arg[1]] # <<>>) =>
          LET k == last.arg[1]
              p == last.pre.pool[k]
          IN /\ last.ret = p[Len(p)]
             /\ w.pool[k] = SubSeq(p, 1, Len(p) - 1)
             /\ \A k2 \in TypeNames \ {k} : w.pool[k2] = last.pre.pool[k2]

\* Create has returned the entity recycled last, from a pool of two different
\* entities of one kind.
C13_Witness ==
    /\ last.op = "Create"
    /\ LET p == last.pre.pool[last.arg[1]]
       IN Len(p) = 2 /\ p[1] # p[2] /\ last.ret = p[2] /\ last.ret # last.arg[2]

\* C14: Create on a kind whose pool is empty calls ctor once and returns what it
\* returns; Create and Recycle leave the layer lists, layerOrder, the type counts
\* and both queues as they are, so Entities() lists after them what it listed
\* before.
C14_PoolFrame ==
    /\ (last.op = "Create" /\ last.pre.pool[last.arg[1]] = <<>>) =>
          /\ CtorCalls(last.pre, last.arg[1]) = 1
          /\ last.ret = last.arg[2]
          /\ w = last.pre
    /\ last.op \in {"Create", "Recycle"} =>
          /\ w.layers = last.pre.layers
          /\ w.layerOrder = last.pre.layerOrder
          /\ w.typeCounts = last.pre.typeCounts
          /\ w.addQueue = last.pre.addQueue
          /\ w.removeQueue = last.pre.removeQueue
          /\ Entities(FlushQueues(w)) = Entities(FlushQueues(last.pre))

\* Create has called ctor, on a World that holds an entity, and what it returned
\* is not live.
C14_Witness ==
    /\ last.op = "Create"
    /\ last.pre.pool[last.arg[1]] = <<>>
    /\ last.ret = last.arg[2]
    /\ Entities(w) # <<>>
    /\ Occ(Entities(w), last.ret) = 0

\* The entity e is in the pool of some kind.
InPool(ww, e) == \E k \in TypeNames : Occ(ww.pool[k], e) > 0

ReorderOps == {"BringToFront", "SendToBack", "BringForward", "SendBackward"}

\* The entity e is found in the list of its layer in the World ww.
Found(ww, e) == IndexOf(ww.layers[Layer(e)], e) # 0

\* C16: a z-order call with an entity that is not found in its layer's list
\* leaves the whole World as it was, and an Add of any entity followed by a flush
\* gives the same Entities() and the same Count() as without the call.
C16_ReorderAbsentNoOp ==
    (last.op \in ReorderOps /\ ~Found(last.pre, last.arg)) =>
        /\ w = last.pre
        /\ \A x \in Ent :
              /\ Entities(FlushQueues(Add(w, x))) =
                    Entities(FlushQueues(Add(last.pre, x)))
              /\ Count(FlushQueues(Add(w, x))) = Count(FlushQueues(Add(last.pre, x)))

\* The sequence s without the entries equal to e.
Others(s, e) == LET NotE(x) == x # e IN SelectSeq(s, NotE)

\* C17: BringToFront(e) and SendToBack(e), for an entity found in its layer's
\* list, take the first entry of e out of the list and put it at the end
\* (BringToFront) or at the start (SendToBack): e is then last, or first, the
\* list holds every entity as many times as before, the other entities keep
\* their order, and every other layer's list, layerOrder and the queues are
\* unchanged.
C17_FrontBack ==
    (last.op \in {"BringToFront", "SendToBack"} /\ Found(last.pre, last.arg)) =>
        LET e == last.arg
            l == Layer(e)
            b == Lists(last.pre)[l]
            a == Lists(w)[l]
        IN /\ Len(a) = Len(b)
           /\ IF last.op = "BringToFront"
              THEN a[Len(a)] = e /\ a = Append(WithoutFirst(b, e), e)
              ELSE a[1] = e /\ a = <<e>> \o WithoutFirst(b, e)
           /\ \A x \in Ent : Occ(a, x) = Occ(b, x)
           /\ Others(a, e) = Others(b, e)
           /\ \A l2 \in LayerIds \ {l} : Lists(w)[l2] = Lists(last.pre)[l2]
           /\ w.layerOrder = last.pre.layerOrder
           /\ w.addQueue = last.pre.addQueue /\ w.removeQueue = last.pre.removeQueue

\* BringToFront has moved the first of three different entities of a layer behind
\* the two others.
C17_Witness ==
    /\ last.op = "BringToFront"
    /\ LET b == Lists(last.pre)[Layer(last.arg)]
           a == Lists(w)[Layer(last.arg)]
       IN /\ Len(b) = 3 /\ b[1] = last.arg /\ b[2] # b[1] /\ b[3] # b[1] /\ b[2] # b[3]
          /\ a = <<b[2], b[3], b[1]>>

\* The sequence s with the elements at i and j exchanged.
Exchanged(s, i, j) ==
    [k \in 1..Len(s) |-> IF k = i THEN s[j] ELSE IF k = j THEN s[i] ELSE s[k]]

\* C18: for an entity e at index i of its layer's list, BringForward(e) exchanges
\* the elements at i and i+1, and changes nothing when i is the last index;
\* SendBackward(e) exchanges the elements at i and i-1, and changes nothing when
\* i is the first index; no other layer changes; SendBackward(e) after a
\* BringForward(e) made with e not last gives the order before.
C18_SwapNeighbour ==
    (last.op \in {"BringForward", "SendBackward"} /\ Found(last.pre, last.arg)) =>
        LET e == last.arg
            l == Layer(e)
            b == Lists(last.pre)[l]
            a == Lists(w)[l]
        IN /\ \A i \in 1..Len(b) :
                 b[i] = e =>
                    IF last.op = "BringForward"
                    THEN a = IF i < Len(b) THEN Exchanged(b, i, i + 1) ELSE b
                    ELSE a = IF i > 1 THEN Exchanged(b, i, i - 1) ELSE b
           /\ \A l2 \in LayerIds \ {l} : Lists(w)[l2] = Lists(last.pre)[l2]
           /\ (last.op = "BringForward" /\ b[Len(b)] # e)
                 => Lists(SendBackward(w, e)) = Lists(last.pre)

\* The layers in layerOrder, and the keys of the layers map.
KnownLayers(ww) == {ww.layerOrder[i] : i \in 1..Len(ww.layerOrder)}
LayerKeys(ww) == {l \in LayerIds : ww.layers[l].ok}

\* C19: the layers known to the World, in layerOrder and as keys of the layers
\* map, are exactly the layers whose list holds an entity and the layers of the
\* entities in the add queue.
C19_KnownLayers ==
    LET expected == {l \in LayerIds : w.layers[l].len > 0}
                       \cup {Layer(w.addQueue[i]) : i \in 1..Len(w.addQueue)}
    IN /\ KnownLayers(w) = expected
       /\ LayerKeys(w) = expected

\* C20: when the game has changed the LayerID of an entity e that Add had queued
\* while e was on the layer old, the flush still places e in the list of old: no
\* list of another layer gains an entry of e; and the change leaves the lists and
\* the queues as they are.
C20_LayerAtAdd ==
    last.op = "SetLayer" =>
        LET e   == last.arg[1]
            old == last.ret
            F   == FlushQueues(w)
        IN /\ w = last.pre
           /\ \A l \in LayerIds \ {old} : Occ(Lists(F)[l], e) <= Occ(Lists(w)[l], e)

\* C21: a flush that processes a Remove of an entity e that the Entities() of
\* before listed, and that no queued Add brings back, leaves e out of Entities(),
\* whatever Layer() of e has become since e was taken in.
C21_RemovedGone ==
    Flushed =>
        \A e \in Ent :
            (/\ Occ(Entities(last.pre), e) > 0
             /\ Occ(last.pre.removeQueue, e) > 0
             /\ Occ(last.pre.addQueue, e) = 0)
            => Occ(Entities(w), e) = 0

\* The frame that began last has made all its Game.Update calls.
Stepped == eng.frames > 0 /\ eng.pc \in {"render", "measure"}

\* The frame that began last has ended.
FrameEnded == eng.frames > 0 /\ eng.pc = "measure"

\* C22: a frame that begins with the engine paused makes no Game.Update call, in
\* fixed and in variable mode, takes no snapshot, leaves the lag as it was, and
\* calls Game.Draw once.
C22_PausedFrame ==
    (eng.frames > 0 /\ eng.startPaused) =>
        /\ eng.pc # "steps"
        /\ eng.updates = 0
        /\ Occ(eng.calls, "Update") = 0
        /\ eng.snaps = 0
        /\ eng.lag = eng.lagBefore
        /\ eng.draws = (IF eng.pc = "measure" THEN 1 ELSE 0)

\* A fixed-mode frame that began paused, with time gone by and lag carried over,
\* has ended.
C22_Witness ==
    /\ FrameEnded
    /\ eng.startPaused
    /\ eng.fixed
    /\ eng.raw > 0
    /\ eng.lagBefore > 0

\* C23: Game.Update is never called while paused is set, that is between a call
\* of Pause() and the next call of Resume(), wherever in the frame Pause() was
\* called.
C23_NoUpdateWhilePaused == ~eng.updatedPaused

\* C24: the first frame that begins unpaused after frames that began paused adds
\* to the lag the paused frames began with its own clamped delta and nothing else,
\* and makes no more Game.Update calls than that lag holds whole steps.
C24_ResumeLag ==
    (eng.frames > 0 /\ eng.fixed /\ eng.resumed) =>
        /\ eng.lagBefore = eng.pausedLag
        /\ eng.acc = eng.pausedLag + Min(eng.raw, eng.maxElapsed)
        /\ eng.updates = 0 \/ eng.updates * eng.tickRate <= eng.acc

\* A fixed-mode frame after a pause has ended that carried lag over the pause and
\* made an update.
C24_Witness ==
    /\ FrameEnded
    /\ eng.fixed
    /\ eng.resumed
    /\ eng.pausedLag > 0
    /\ eng.raw > 0
    /\ eng.updates >= 1

\* C25: in a frame whose measured delta is negative, Elapsed is 0, the lag takes
\* nothing from the delta (fixed mode), and Game.Update receives 0 (variable
\* mode).
C25_NegativeDeltaZero ==
    (eng.frames > 0 /\ eng.raw < 0) =>
        /\ eng.Elapsed = 0
        /\ (eng.fixed /\ ~eng.startPaused) => eng.acc = eng.lagBefore
        /\ (~eng.fixed /\ ~eng.startPaused) => eng.updateDt = 0

\* C26: a variable-mode frame that begins unpaused calls Game.Update once, with
\* the measured delta cut to maxElapsed and not scaled by Rate, and accumulates
\* no lag.
C26_VariableUpdate ==
    (eng.frames > 0 /\ ~eng.fixed /\ ~eng.startPaused) =>
        /\ eng.updates = 1
        /\ Occ(eng.calls, "Update") = 1
        /\ eng.updateDt = Min(eng.raw, eng.maxElapsed)
        /\ eng.updateDt <= eng.maxElapsed
        /\ eng.lag = 0
        /\ eng.acc = 0

\* A variable-mode frame with a delta above the ceiling and a time scale of 2 has
\* ended.
C26_Witness ==
    /\ FrameEnded
    /\ ~eng.fixed
    /\ ~eng.startPaused
    /\ eng.raw > eng.maxElapsed
    /\ eng.Rate = 2
    /\ eng.Elapsed = 2 * eng.updateDt

C28_FrameProtocol ==
    LET n == Len(eng.calls)
    IN /\ eng.creates = (IF eng.pc = "create" THEN 0 ELSE 1)
       /\ eng.pc = "create" => (eng.frames = 0 /\ n = 0)
       /\ eng.frames = 0 => n = 0
       /\ eng.pc \in {"steps", "render"} =>
              /\ \A i \in 1..n : eng.calls[i] = "Update"
              /\ eng.draws = 0
       /\ FrameEnded =>
              /\ n >= 1
              /\ eng.calls[n] = "Draw"
              /\ \A i \in 1..(n - 1) : eng.calls[i] = "Update"
              /\ n = eng.updates + 1
              /\ eng.draws = 1

\* A frame in which the game paused the engine during its updates has ended with
\* its Game.Draw.
C28_Witness ==
    /\ FrameEnded
    /\ eng.paused
    /\ ~eng.startPaused
    /\ eng.calls = <<"Update", "Update", "Draw">>

\* C29: NewEngine with fps <= 0 returns no Engine.
C29_NonPositiveFpsFails == eng.fps <= 0 => eng.pc = "panic"

\* C30: at the end of every frame of a fixed-mode engine the lag is not negative.
C30_LagNonNegative == (FrameEnded /\ eng.fixed) => eng.lag >= 0

\* C31: a fixed-mode frame that begins unpaused with a prior lag L >= 0 and a
\* clamped delta d >= 0 makes n = floor(min(L + d, step * maxFrameSkip) / step)
\* Game.Update calls, each with dt = step, and leaves the lag
\* min(L + d, step * maxFrameSkip) - n * step; a frame that fills the cap makes
\* maxFrameSkip calls and draws with the factor 0.
C31_StepCount ==
    (Stepped /\ eng.fixed /\ ~eng.startPaused /\ eng.lagBefore >= 0 /\ eng.dt >= 0) =>
        LET cap == eng.tickRate * eng.maxFrameSkip
            c   == Min(eng.lagBefore + eng.dt, cap)
            n   == c \div eng.tickRate
        IN /\ eng.updates = n
           /\ eng.updates > 0 => eng.updateDt = eng.tickRate
           /\ eng.lag = c - n * eng.tickRate
           /\ (FrameEnded /\ c = cap) =>
                  (eng.updates = eng.maxFrameSkip /\ eng.drawn.num = 0)

\* C32: in a fixed-mode frame that begins unpaused, every entity that is live
\* after the flush has had Snapshot called once, from before the first
\* Game.Update of the frame on, also when the frame runs no step.
C32_SnapshotOnce ==
    (eng.frames > 0 /\ eng.fixed /\ ~eng.startPaused) =>
        \A e \in Live(w) : body[e].snaps = 1

\* C33: when Game.Draw has run in fixed mode, prevRawX of every live entity is
\* its rawX of immediately before the last Game.Update of a fixed step.
C33_PrevBeforeLastStep ==
    (FrameEnded /\ eng.fixed) =>
        \A e \in Live(w) : body[e].prev = body[e].before

\* The sum of LayerCount(l) over the layers of ls.
RECURSIVE SumLayerCount(_, _)
SumLayerCount(ww, ls) ==
    IF ls = {} THEN 0
    ELSE LET l == CHOOSE x \in ls : TRUE
         IN LayerCount(ww, l) + SumLayerCount(ww, ls \ {l})

\* C35: with the queues flushed, Count() is the length of Entities() and the sum
\* of LayerCount(l) over all layers, and every entity stored in the list of some
\* layer is listed by Entities().
C35_CountsAgree ==
    LET F == FlushQueues(w)
    IN /\ Count(F) = Len(Entities(F))
       /\ Count(F) = SumLayerCount(F, LayerIds)
       /\ \A l \in LayerIds : \A e \in Ent :
              Occ(Lists(F)[l], e) > 0 => Occ(Entities(F), e) > 0

\* C36: when a traversal returns, whatever its callbacks have queued and flushed
\* meanwhile, every entity that was live at its start has been visited once and
\* no entity has been visited twice.
C36_NestedFlushSafe ==
    last.op = "Return" =>
        /\ \A e \in Ent : Occ(trav.start, e) > 0 => Occ(trav.visited, e) = 1
        /\ \A e \in Ent : Occ(trav.visited, e) <= 1

====
